---- MODULE Spec2Model ----
(***************************************************************************)
(* IonGauge354 (src/core/ion_gauge_354.py): the RS485 driver of the Kurt   *)
(* J. Lesker 354 ionization gauge.  The model follows the object's fields, *)
(* the serial transport it talks to, the lines it prints and the exception *)
(* (if any) each call ends with.  Python semantics are kept where they     *)
(* decide behaviour: a name looked up in the module's globals, an          *)
(* attribute a type does not have, an exception raised inside or outside   *)
(* a try block.                                                            *)
(***************************************************************************)
EXTENDS Integers, Sequences, FiniteSets

VARIABLES
    \* configuration read by __init__ (lines 42-52)
    address, store_data, h5file, interval, duration,
    \* the module's global namespace: is the name calc_crc bound there?
    calc_crc_global,
    \* internal state of the object (lines 57-60)
    ser, _running, _start_time, _curr_itteration,
    \* the wall clock datetime.now() reads, in seconds
    now,
    \* the HDF5 table write_to_h5 appends to, and the number of calls that
    \* opened it and completed since it was created
    h5, h5_writes,
    \* the frame of a stream() call in progress
    pc, pressure,
    \* the transport: operations of the current exchange, bytes it delivered
    wire, resp,
    \* lines printed by the call
    stdout,
    \* the last call made on the object and how it ended
    last,
    \* the frame of a calc_crc() call
    crc_pc, crc_data, crc_i, crc_bit, crc, crc_out, crc_calls

gauge_vars == <<address, store_data, h5file, interval, duration,
                calc_crc_global, ser, _running, _start_time,
                _curr_itteration, now, h5, h5_writes, pc, pressure,
                wire, resp, stdout, last>>
crc_vars == <<crc_pc, crc_data, crc_i, crc_bit, crc, crc_out, crc_calls>>
vars == <<gauge_vars, crc_vars>>

----------------------------------------------------------------------------
(* Bounds of the model *)

\* longest input given to calc_crc when it is called on its own
MaxCrcLen == 3
\* how many times calc_crc is called on the same input
MaxCrcCalls == 2

(* Program constants *)

CrcInit == 65535
CrcPoly == 40961
StartMarker == 33
RespMarker == 42
CmdReadPressure == 2
MinRespLen == 10
ReadSize == 20

\* Optional[float] as a sequence: None is empty, a value is its three fields
None == <<>>
\* a local variable not assigned yet
Unset == <<-1>>

----------------------------------------------------------------------------
(* Python integer operators on non-negative ints (unbounded width) *)

RECURSIVE Xor(_, _)
Xor(a, b) ==
    IF a = 0 THEN b
    ELSE IF b = 0 THEN a
    ELSE (((a % 2) + (b % 2)) % 2) + (2 * Xor(a \div 2, b \div 2))

\* what a call ends with: a returned value (a sequence), or a raised exception
Ok(v) == [raised |-> "none", ret |-> v]
Raise(e) == [raised |-> e, ret |-> <<>>]

\* int.to_bytes(2, byteorder='little'): OverflowError when it does not fit
ToBytes2Little(n) ==
    IF n < 65536 THEN Ok(<<(n % 256), (n \div 256)>>) ELSE Raise("OverflowError")

\* int.to_bytes(1, 'big')
ToBytes1(n) == IF n < 256 THEN Ok(<<n>>) ELSE Raise("OverflowError")

\* int(s, 16) of a string of hexadecimal digits, given as the digits' values
RECURSIVE HexValue(_)
HexValue(digits) ==
    IF digits = <<>> THEN 0
    ELSE (16 * HexValue(SubSeq(digits, 1, Len(digits) - 1))) + digits[Len(digits)]

\* b[i] of Python, 0-based: IndexError past the end
InRange(b, i) == i < Len(b)
At(b, i) == b[i + 1]

\* b[i:j] of Python: a slice never raises, it is cut at the end
Slice(b, i, j) ==
    LET hi == IF j < Len(b) THEN j ELSE Len(b)
    IN  IF i < hi THEN SubSeq(b, i + 1, hi) ELSE <<>>

\* struct.unpack('>f', b): the IEEE-754 single read big-endian from b, kept
\* as its fields <<sign, exponent, fraction>>; struct.error unless len(b) = 4
UnpackFloatBE(b) ==
    IF Len(b) # 4 THEN Raise("struct.error")
    ELSE Ok(<< b[1] \div 128,
               ((b[1] % 128) * 2) + (b[2] \div 128),
               ((((b[2] % 128) * 256) + b[3]) * 256) + b[4] >>)

----------------------------------------------------------------------------
(* calc_crc, lines 94-104 *)

\* line 98: crc ^= byte
CrcXorByte(c, byte) == Xor(c, byte)

\* lines 100-103: one of the 8 shift steps
\* (CrcShiftBad: the polynomial 0x8005 not reflected; CrcShiftLeft: the
\* accumulator shifted left)
CrcShiftLeft(c) ==
    IF (c % 2) = 1 THEN Xor(c * 2, CrcPoly) ELSE c * 2
CrcShiftBad(c) ==
    IF (c % 2) = 1 THEN Xor(c \div 2, 32773) ELSE c \div 2
CrcShift(c) ==
    IF (c % 2) = 1 THEN Xor(c \div 2, CrcPoly) ELSE c \div 2

RECURSIVE CrcShifts(_, _)
CrcShifts(c, n) == IF n = 0 THEN c ELSE CrcShifts(CrcShift(c), n - 1)

RECURSIVE CrcFold(_, _)
CrcFold(c, data) ==
    IF data = <<>> THEN c
    ELSE CrcFold(CrcShifts(CrcXorByte(c, Head(data)), 8), Tail(data))

\* the whole function, as send_command uses it
calc_crc(data) == ToBytes2Little(CrcFold(CrcInit, data))

----------------------------------------------------------------------------
(* Inputs: configurations and what the device may answer *)

\* [Serial] address, a hexadecimal string, as its digits: "01", "2A", "100"
Addresses == { <<0, 1>>, <<2, 10>>, <<1, 0, 0>> }
\* [Logging] interval and duration
Intervals == {2, 5}
Durations == {0, 10}
H5Files == {"", "pressure.h5"}
\* command codes and payloads a caller passes to send_command
Commands == {2, 16}
Payloads == { <<>>, <<1, 255>> }

\* a 20-byte answer: marker, address, echo, units, 4 pressure bytes, 12 more
Frame(b0, b1, b2, u, pb) ==
    <<b0, b1, b2, u>> \o pb \o <<170, 85, 0, 0, 0, 0, 0, 0, 0, 0, 0, 13>>
RespLens == {0, 1, 5, 9, 10, 20}
\* ser.read(20) returns what arrived before the timeout: any prefix
Responses ==
    { Slice(Frame(b0, b1, b2, 4, <<67, 72, 0, 0>>), 0, n) :
        b0 \in {42, 33}, b1 \in {1, 42}, b2 \in {2, 1}, n \in RespLens }
    \cup { Frame(42, b1, 2, 0, <<255, 192, 0, 1>>) : b1 \in {1, 42} }
\* what a caller of send_command itself is answered
RawResponses == { r \in Responses : Len(r) \in {0, 9, 20} /\ (Len(r) > 0 => r[1] = 42 /\ r[3] = 2) }

\* the bodies (address, command, payload) these inputs give, and their CRC,
\* computed once
Bodies ==
    { <<HexValue(a)>> \o <<c>> \o p :
        a \in { d \in Addresses : HexValue(d) < 256 }, c \in Commands, p \in Payloads }
CrcOfBody == [b \in Bodies |-> calc_crc(b)]

----------------------------------------------------------------------------
(* send_command, lines 138-160 *)

Line(text, arg) == [text |-> text, arg |-> arg]
Op(name, arg) == [op |-> name, arg |-> arg]

\* lines 147-151: the packet, or the exception building it ends with.
\* Line 150 calls calc_crc by its bare name, which Python looks up in the
\* module's globals; the file binds calc_crc only as an attribute of the
\* class, so as written the call raises NameError. calc_crc_global is TRUE
\* only in a host program that binds the name in the module before calling.
Packet(cmd, payload) ==
    LET addr == ToBytes1(HexValue(address))
    IN  IF addr.raised # "none" THEN addr
        ELSE IF cmd \notin 0..255 THEN Raise("ValueError")
        ELSE IF ~calc_crc_global THEN Raise("NameError")
        ELSE LET body == addr.ret \o <<cmd>> \o payload
                 crcb == CrcOfBody[body]
             IN  IF crcb.raised # "none" THEN crcb
                 ELSE Ok(<<StartMarker>> \o body \o crcb.ret)

\* lines 153-159: the operations on the serial port, in order
Exchange(packet) ==
    << Op("reset_input_buffer", <<>>), Op("write", packet), Op("flush", <<>>),
       Op("sleep_ms", <<100>>), Op("read", <<ReadSize>>) >>

\* the whole call; rsp is what ser.read(20) delivers
\* (send_command_unchecked: the same without lines 144-145)
send_command_unchecked(cmd, payload, rsp) ==
    LET pk == Packet(cmd, payload)
    IN  IF pk.raised # "none" THEN [raised |-> pk.raised, ret |-> <<>>, wire |-> <<>>]
        ELSE [raised |-> "none", ret |-> rsp, wire |-> Exchange(pk.ret)]
send_command(cmd, payload, rsp) ==
    IF ser # "open"
    THEN [raised |-> "RuntimeError", ret |-> <<>>, wire |-> <<>>]
    ELSE LET pk == Packet(cmd, payload)
         IN  IF pk.raised # "none"
             THEN [raised |-> pk.raised, ret |-> <<>>, wire |-> <<>>]
             ELSE [raised |-> "none", ret |-> rsp, wire |-> Exchange(pk.ret)]

----------------------------------------------------------------------------
(* read_pressure, lines 162-193 *)

\* what the decode step ends with: exception or Optional[float], and the
\* lines it printed
Decoded(raised, ret, out) == [raised |-> raised, ret |-> ret, out |-> out]
Rejected(text, arg) == Decoded("none", None, <<Line(text, arg)>>)

\* line 170: not resp or len(resp) < 10 or resp[0] != ord('*'), evaluated
\* left to right with short circuit, outside the try block
\* (ResponseInvalidMarkerFirst: the same operands with resp[0] tested first)
ResponseInvalidMarkerFirst(r) ==
    IF ~InRange(r, 0) THEN "IndexError"
    ELSE IF At(r, 0) # RespMarker THEN "invalid"
    ELSE IF Len(r) = 0 THEN "invalid"
    ELSE IF Len(r) < MinRespLen THEN "invalid"
    ELSE "valid"
ResponseInvalid(r) ==
    IF Len(r) = 0 THEN "invalid"
    ELSE IF Len(r) < MinRespLen THEN "invalid"
    ELSE IF ~InRange(r, 0) THEN "IndexError"
    ELSE IF At(r, 0) # RespMarker THEN "invalid"
    ELSE "valid"

\* line 191-193: except Exception inside read_pressure
Caught(e) == Decoded("none", None, <<Line("Error decoding pressure", -1)>>)

\* (DecodePressureFromUnit: the four bytes taken from the unit byte on)
DecodePressureFromUnit(r) ==
    IF ~InRange(r, 3) THEN Caught("IndexError")
    ELSE LET p == UnpackFloatBE(Slice(r, 3, 7))
         IN  IF p.raised # "none" THEN Caught(p.raised)
             ELSE Decoded("none", p.ret, <<>>)

\* lines 185-189
DecodePressure(r) ==
    IF ~InRange(r, 3) THEN Caught("IndexError")
    ELSE LET p == UnpackFloatBE(Slice(r, 4, 8))
         IN  IF p.raised # "none" THEN Caught(p.raised)
             ELSE Decoded("none", p.ret, <<>>)

\* lines 174-193: the try block
\* (DecodeBodyNoEcho: without lines 180-183; DecodeBodyEchoFirst: the echo
\* tested before the address)
DecodeBodyNoEcho(r, cmd) ==
    IF ~InRange(r, 1) THEN Caught("IndexError")
    ELSE IF At(r, 1) # HexValue(address)
    THEN Rejected("Unexpected address", At(r, 1))
    ELSE DecodePressure(r)
DecodeBodyEchoFirst(r, cmd) ==
    IF ~InRange(r, 2) THEN Caught("IndexError")
    ELSE IF At(r, 2) # cmd
    THEN Rejected("Unexpected cmd echo", At(r, 2))
    ELSE IF At(r, 1) # HexValue(address)
    THEN Rejected("Unexpected address", At(r, 1))
    ELSE DecodePressure(r)
DecodeBody(r, cmd) ==
    IF ~InRange(r, 1) THEN Caught("IndexError")
    ELSE IF At(r, 1) # HexValue(address)
    THEN Rejected("Unexpected address", At(r, 1))
    ELSE IF ~InRange(r, 2) THEN Caught("IndexError")
    ELSE IF At(r, 2) # cmd
    THEN Rejected("Unexpected cmd echo", At(r, 2))
    ELSE DecodePressure(r)

\* lines 170-193
Decode(r, cmd) ==
    LET head == ResponseInvalid(r)
    IN  IF head = "invalid" THEN Rejected("Invalid or empty response", -1)
        ELSE IF head # "valid" THEN Decoded(head, <<>>, <<>>)
        ELSE DecodeBody(r, cmd)

\* the whole call: [raised, ret, out, wire, resp]
read_pressure(rsp) ==
    LET sent == send_command(CmdReadPressure, <<>>, rsp)
    IN  IF sent.raised # "none"
        THEN [raised |-> sent.raised, ret |-> <<>>, out |-> <<>>,
              wire |-> sent.wire, resp |-> <<>>]
        ELSE LET d == Decode(sent.ret, CmdReadPressure)
             IN  [raised |-> d.raised, ret |-> d.ret, out |-> d.out,
                  wire |-> sent.wire, resp |-> sent.ret]

----------------------------------------------------------------------------
(* The state after construction, lines 32-60 *)

Called(op, args, raised, ret) ==
    [op |-> op, args |-> args, raised |-> raised, ret |-> ret]

\* the table before line 217 has created it
NoTable == [created |-> FALSE, index |-> <<>>, timestamp |-> <<>>,
            pressure |-> <<>>]

\* __init__, lines 42-60, without the file h5file names
InitObject ==
    /\ address \in Addresses
    /\ store_data \in BOOLEAN
    /\ h5file \in H5Files
    /\ interval \in Intervals
    /\ duration \in Durations
    /\ calc_crc_global \in BOOLEAN
    /\ ser = "None"
    /\ _running = FALSE
    /\ now = 0
    /\ _start_time = now
    /\ _curr_itteration = 0
    /\ pc = "idle"
    /\ pressure = Unset
    /\ wire = <<>>
    /\ resp = <<>>
    /\ stdout = <<Line("Configured IonGauge354", -1)>>
    /\ last = Called("__init__", <<>>, "none", <<>>)

InitGauge ==
    /\ InitObject
    /\ h5 = NoTable
    /\ h5_writes = 0

CrcIdle ==
    /\ crc_pc = "idle"
    /\ crc_data = <<>>
    /\ crc_i = 0
    /\ crc_bit = 0
    /\ crc = 0
    /\ crc_out = <<>>
    /\ crc_calls = 0

\* no step of Spec reads h5file: one value stands for both
Init == InitGauge /\ h5file = "pressure.h5" /\ CrcIdle

config == <<address, store_data, h5file, interval, duration,
            calc_crc_global>>
clock == <<now, _start_time>>
table == <<h5, h5_writes>>

----------------------------------------------------------------------------
(* Calls made on the object while no stream() is in progress *)

\* connect, lines 63-85: serial.Serial(port=...) opens the port or raises;
\* then ser.open() names a variable that does not exist, the handler prints
\* and exit() raises SystemExit
connect(op) ==
    /\ pc = "idle"
    /\ \E port_ok \in BOOLEAN :
         IF port_ok
         THEN /\ ser' = "open"
              /\ stdout' = <<Line("error open serial port: name 'ser' is not defined", -1)>>
              /\ last' = Called(op, <<>>, "SystemExit", <<>>)
         ELSE /\ ser' = ser
              /\ stdout' = <<>>
              /\ last' = Called(op, <<>>, "SerialException", <<>>)
    /\ wire' = <<>>
    /\ resp' = <<>>
    /\ UNCHANGED <<config, clock, _running, _curr_itteration, table, pc,
                   pressure, crc_vars>>

Connect == connect("connect")

\* run_app, lines 234-237: connect() never returns, stream() is not reached
RunApp == connect("run_app")

\* close, lines 88-91
Close ==
    /\ pc = "idle"
    /\ IF ser = "open"
       THEN ser' = "closed" /\ stdout' = <<Line("Serial connection closed.", -1)>>
       ELSE ser' = ser /\ stdout' = <<>>
    /\ last' = Called("close", <<>>, "none", <<>>)
    /\ wire' = <<>>
    /\ resp' = <<>>
    /\ UNCHANGED <<config, clock, _running, _curr_itteration, table, pc,
                   pressure, crc_vars>>

SendCommand ==
    /\ pc = "idle"
    /\ \E cmd \in Commands, payload \in Payloads, rsp \in RawResponses :
         LET r == send_command(cmd, payload, rsp)
         IN  /\ last' = Called("send_command", <<cmd>> \o payload, r.raised, r.ret)
             /\ wire' = r.wire
             /\ resp' = r.ret
    /\ stdout' = <<>>
    /\ UNCHANGED <<config, clock, ser, _running, _curr_itteration, table, pc,
                   pressure, crc_vars>>

ReadPressure ==
    /\ pc = "idle"
    /\ \E rsp \in Responses :
         LET r == read_pressure(rsp)
         IN  /\ last' = Called("read_pressure", <<>>, r.raised, r.ret)
             /\ wire' = r.wire
             /\ resp' = r.resp
             /\ stdout' = r.out
    /\ UNCHANGED <<config, clock, ser, _running, _curr_itteration, table, pc,
                   pressure, crc_vars>>

----------------------------------------------------------------------------
(* stream, lines 197-210 *)

\* line 199
StreamStart ==
    /\ pc = "idle"
    /\ pc' = "test"
    /\ _running' = TRUE
    /\ pressure' = Unset
    /\ last' = Called("stream", <<>>, "none", <<>>)
    /\ wire' = <<>>
    /\ resp' = <<>>
    /\ stdout' = <<>>
    /\ UNCHANGED <<config, clock, ser, _curr_itteration, table, crc_vars>>

\* line 200: the loop's condition
Continue ==
    _running /\ (_curr_itteration < duration \/ duration = 0)

StreamEnter ==
    /\ pc = "test"
    /\ Continue
    /\ pc' = "read"
    /\ UNCHANGED <<config, clock, ser, _running, _curr_itteration, table,
                   pressure,
                   wire, resp, stdout, last, crc_vars>>

\* the condition is false: stream returns
StreamReturn ==
    /\ pc = "test"
    /\ ~Continue
    /\ pc' = "idle"
    /\ UNCHANGED <<config, clock, ser, _running, _curr_itteration, table,
                   pressure,
                   wire, resp, stdout, last, crc_vars>>

\* line 201: an exception of read_pressure leaves stream
StreamRead ==
    /\ pc = "read"
    /\ \E rsp \in Responses :
         LET r == read_pressure(rsp)
         IN  /\ wire' = r.wire
             /\ resp' = r.resp
             /\ stdout' = r.out
             /\ IF r.raised # "none"
                THEN /\ pc' = "idle"
                     /\ last' = Called("stream", <<>>, r.raised, <<>>)
                     /\ pressure' = pressure
                ELSE /\ pc' = "stamp"
                     /\ last' = last
                     /\ pressure' = r.ret
    /\ UNCHANGED <<config, clock, ser, _running, _curr_itteration, table,
                   crc_vars>>

\* line 202: (datetime.now() - self._start_time) is a timedelta, which has
\* no isoformat(): AttributeError, in every iteration whose read returned
StreamStamp ==
    /\ pc = "stamp"
    /\ pc' = "idle"
    /\ last' = Called("stream", <<>>, "AttributeError", <<>>)
    /\ UNCHANGED <<config, clock, ser, _running, _curr_itteration, table,
                   pressure,
                   wire, resp, stdout, crc_vars>>

\* the stop signal: another thread clears the flag while stream runs
Stop ==
    /\ pc # "idle"
    /\ _running
    /\ _running' = FALSE
    /\ UNCHANGED <<config, clock, ser, _curr_itteration, table, pc, pressure,
                   wire, resp, stdout, last, crc_vars>>

Next ==
    \/ Connect
    \/ RunApp
    \/ Close
    \/ SendCommand
    \/ ReadPressure
    \/ StreamStart
    \/ StreamEnter
    \/ StreamReturn
    \/ StreamRead
    \/ StreamStamp
    \/ Stop

Spec == Init /\ [][Next]_vars

----------------------------------------------------------------------------
(* calc_crc called on its own, step by step (lines 94-104) *)

CrcBytes == {0, 1, 2, 49, 128, 255}
CrcInputs == UNION { [1..n -> CrcBytes] : n \in 0..MaxCrcLen }

InitCrc ==
    /\ InitGauge
    /\ address = <<0, 1>> /\ store_data /\ interval = 2 /\ duration = 0
    /\ ~calc_crc_global /\ h5file = "pressure.h5"
    /\ crc_pc = "start"
    /\ crc_data \in CrcInputs
    /\ crc_i = 0
    /\ crc_bit = 0
    /\ crc = 0
    /\ crc_out = <<>>
    /\ crc_calls = 1

\* line 96
CrcBegin ==
    /\ crc_pc = "start"
    /\ crc' = CrcInit
    /\ crc_i' = 0
    /\ crc_bit' = 0
    /\ crc_pc' = "byte"
    /\ UNCHANGED <<gauge_vars, crc_data, crc_out, crc_calls>>

\* lines 97-98: the next byte is XORed in
CrcTakeByte ==
    /\ crc_pc = "byte"
    /\ crc_i < Len(crc_data)
    /\ crc' = CrcXorByte(crc, crc_data[crc_i + 1])
    /\ crc_bit' = 0
    /\ crc_pc' = "bit"
    /\ UNCHANGED <<gauge_vars, crc_data, crc_i, crc_out, crc_calls>>

\* lines 99-103: one pass of the inner loop
CrcBitStep ==
    /\ crc_pc = "bit"
    /\ crc_bit < 8
    /\ crc' = CrcShift(crc)
    /\ crc_bit' = crc_bit + 1
    /\ UNCHANGED <<gauge_vars, crc_pc, crc_data, crc_i, crc_out, crc_calls>>

\* the inner loop is over: on to the next byte
CrcByteDone ==
    /\ crc_pc = "bit"
    /\ crc_bit = 8
    /\ crc_i' = crc_i + 1
    /\ crc_pc' = "byte"
    /\ UNCHANGED <<gauge_vars, crc_data, crc_bit, crc, crc_out, crc_calls>>

\* line 104
CrcReturn ==
    /\ crc_pc = "byte"
    /\ crc_i = Len(crc_data)
    /\ LET r == ToBytes2Little(crc)
       IN  /\ crc_out' = r.ret
           /\ crc_pc' = IF r.raised = "none" THEN "done" ELSE r.raised
    /\ UNCHANGED <<gauge_vars, crc_data, crc_i, crc_bit, crc, crc_calls>>

\* the caller calls again with the same input
CrcCallAgain ==
    /\ crc_pc = "done"
    /\ crc_calls < MaxCrcCalls
    /\ crc_calls' = crc_calls + 1
    /\ crc_pc' = "start"
    /\ UNCHANGED <<gauge_vars, crc_data, crc_i, crc_bit, crc, crc_out>>

NextCrc ==
    \/ CrcBegin
    \/ CrcTakeByte
    \/ CrcBitStep
    \/ CrcByteDone
    \/ CrcReturn
    \/ CrcCallAgain

SpecCrc == InitCrc /\ [][NextCrc]_vars

----------------------------------------------------------------------------
(* The reference CRC-16/MODBUS: width 16, polynomial 0x8005, initial value *)
(* 0xFFFF, input and output reflected, no final XOR; computed most         *)
(* significant bit first on the reflected bytes.                           *)

RECURSIVE Reflect(_, _)
Reflect(x, n) ==
    IF n = 0 THEN 0
    ELSE ((x % 2) * (2 ^ (n - 1))) + Reflect(x \div 2, n - 1)

RefShift(c) ==
    IF c >= 32768 THEN Xor((c * 2) % 65536, 32773) ELSE (c * 2) % 65536

RECURSIVE RefShifts(_, _)
RefShifts(c, n) == IF n = 0 THEN c ELSE RefShifts(RefShift(c), n - 1)

RECURSIVE RefFold(_, _)
RefFold(c, data) ==
    IF data = <<>> THEN c
    ELSE RefFold(RefShifts(Xor(c, Reflect(Head(data), 8) * 256), 8), Tail(data))

RefCrc16Modbus(data) == Reflect(RefFold(65535, data), 16)

\* C10: every completed calc_crc call, the first and the repeated one,
\* returns the reference CRC-16/MODBUS value of its input, low byte first;
\* for the empty input that is 0xFF, 0xFF.
C10_CrcIsModbusLowByteFirst ==
    crc_pc = "done" =>
        /\ crc_out = << RefCrc16Modbus(crc_data) % 256,
                        RefCrc16Modbus(crc_data) \div 256 >>
        /\ (crc_data = <<>> => crc_out = <<255, 255>>)

\* a repeated call on the bytes 01 02 has returned 81 E1 (CRC 0xE181)
C10_Witness ==
    /\ crc_pc = "done"
    /\ crc_calls = 2
    /\ crc_data = <<1, 2>>
    /\ crc_out = <<129, 225>>

----------------------------------------------------------------------------
(* The decode step of read_pressure (lines 170-193) applied to a response *)

DecodeTails ==
    { <<170, 85, 0, 0, 0, 0, 0, 0, 0, 0, 0, 13>>,
      <<0, 0, 42, 1, 2, 4, 67, 72, 0, 0, 9, 9>> }
DecodeInputs ==
    { Slice(<<b0, b1, b2, u>> \o pb \o t, 0, n) :
        b0 \in {42, 33, 0}, b1 \in {1, 42, 7}, b2 \in {2, 1, 42}, u \in {0, 4},
        pb \in { <<67, 72, 0, 0>>, <<255, 192, 0, 1>>, <<0, 0, 0, 0>> },
        t \in DecodeTails, n \in 0..ReadSize }

InitDecode ==
    /\ InitGauge
    /\ store_data /\ interval = 2 /\ duration = 0 /\ ~calc_crc_global
    /\ h5file = "pressure.h5"
    /\ CrcIdle

\* line 169 has returned resp; lines 170-193 run on it
DecodeResponse ==
    /\ pc = "idle"
    /\ last.op = "__init__"
    /\ \E r \in DecodeInputs :
         LET d == Decode(r, CmdReadPressure)
         IN  /\ resp' = r
             /\ stdout' = d.out
             /\ last' = Called("decode", <<>>, d.raised, d.ret)
    /\ UNCHANGED <<config, clock, ser, _running, _curr_itteration, table, pc,
                   pressure,
                   wire, crc_vars>>

NextDecode == DecodeResponse

SpecDecode == InitDecode /\ [][NextDecode]_vars

----------------------------------------------------------------------------
(* write_to_h5 (lines 212-231) called on its own                            *)

\* Dataset.resize((m,)): rows kept up to m, new rows hold the fill value
Resize(col, m, fill) ==
    [i \in 1..m |-> IF i <= Len(col) THEN col[i] ELSE fill]

\* lines 217-221: the three datasets are created when "pressure" is missing
Opened(t) == IF t.created THEN t ELSE [NoTable EXCEPT !.created = TRUE]

\* a variant that writes at the last row instead of growing the datasets
AppendRowInPlace(f, n, index, timestamp, p) ==
    IF n = 0
    THEN [f EXCEPT !.index = <<index>>, !.timestamp = <<timestamp>>,
                   !.pressure = <<p>>]
    ELSE [f EXCEPT !.index[n] = index, !.timestamp[n] = timestamp,
                   !.pressure[n] = p]

\* a variant that stores the pressure one row early
AppendRowPressureEarly(f, n, index, timestamp, p) ==
    LET g == [f EXCEPT !.index = Resize(@, n + 1, 0),
                       !.timestamp = Resize(@, n + 1, ""),
                       !.pressure = Resize(@, n + 1, <<0, 0, 0>>)]
    IN  [g EXCEPT !.index[n + 1] = index,
                  !.timestamp[n + 1] = timestamp,
                  !.pressure[IF n = 0 THEN 1 ELSE n] = p]

\* lines 226-231: the datasets are resized to n + 1 rows, then row n
\* (counted from 0) of each is assigned
AppendRow(f, n, index, timestamp, p) ==
    LET g == [f EXCEPT !.index = Resize(@, n + 1, 0),
                       !.timestamp = Resize(@, n + 1, ""),
                       !.pressure = Resize(@, n + 1, <<0, 0, 0>>)]
    IN  [g EXCEPT !.index[n + 1] = index,
                  !.timestamp[n + 1] = timestamp,
                  !.pressure[n + 1] = p]

\* lines 214-231; n is the length of the index dataset (line 225)
write_to_h5(t, file, index, timestamp, p) ==
    IF file = ""
    THEN t
    ELSE LET f == Opened(t)
         IN  AppendRow(f, Len(f.index), index, timestamp, p)

MaxRows == 4

\* the samples a caller hands over: sample k has index k - 1, the text of
\* its elapsed time and a pressure of its own
Stamps == <<"0:00:00", "0:00:05", "0:00:10", "0:00:15">>
Sample(k) == [index |-> k - 1, timestamp |-> Stamps[k],
              pressure |-> <<0, 100 + k, 0>>]
SampleIds == 1..Len(Stamps)
Samples == { Sample(k) : k \in SampleIds }

\* the file before the first call: missing, holding empty datasets, or
\* holding the rows an earlier program run appended
Tables ==
    { NoTable,
      [NoTable EXCEPT !.created = TRUE],
      write_to_h5(NoTable, "pressure.h5", 2, Stamps[3], <<0, 103, 0>>) }

InitRecorder ==
    /\ InitObject
    /\ address = <<0, 1>> /\ store_data /\ interval = 5 /\ duration = 0
    /\ ~calc_crc_global
    /\ h5 \in Tables
    /\ h5file = "" => h5 = NoTable
    /\ h5_writes = Len(h5.index)
    /\ CrcIdle

WriteToH5 ==
    /\ pc = "idle"
    /\ Len(h5.index) < MaxRows
    /\ \E s \in Samples :
         /\ h5' = write_to_h5(h5, h5file, s.index, s.timestamp, s.pressure)
         /\ last' = Called("write_to_h5",
                           <<s.index, s.timestamp, s.pressure>>, "none", None)
    /\ h5_writes' = IF h5file = "" THEN h5_writes ELSE h5_writes + 1
    /\ UNCHANGED <<config, clock, ser, _running, _curr_itteration, pc,
                   pressure, wire, resp, stdout, crc_vars>>

NextRecorder == WriteToH5

SpecRecorder == InitRecorder /\ [][NextRecorder]_vars

----------------------------------------------------------------------------
(* stream() under a clock: datetime.now() at line 59 and at line 202        *)

MaxClock == 2

InitClock ==
    /\ InitGauge
    /\ address = <<0, 1>> /\ store_data /\ interval = 5
    /\ h5file = "pressure.h5"
    /\ CrcIdle

\* a second passes
Tick ==
    /\ now < MaxClock
    /\ now' = now + 1
    /\ UNCHANGED <<config, _start_time, ser, _running, _curr_itteration,
                   table, pc, pressure, wire, resp, stdout, last, crc_vars>>

NextClock ==
    \/ Tick
    \/ Connect
    \/ StreamStart
    \/ StreamEnter
    \/ StreamReturn
    \/ StreamRead
    \/ StreamStamp
    \/ Stop

SpecClock == InitClock /\ [][NextClock]_vars

----------------------------------------------------------------------------
(* Claims *)

AddrByte == HexValue(address)
Decoded1 == last.op = "decode"

\* the four checks of the response, in the order the specification gives
FirstFailing(r) ==
    IF Len(r) < 10 THEN "FrameTooShort"
    ELSE IF r[1] # 42 THEN "BadStartMarker"
    ELSE IF r[2] # AddrByte THEN "AddressMismatch"
    ELSE IF r[3] # 2 THEN "CommandMismatch"
    ELSE "none"

\* C1: with the store flag set, every iteration of the polling loop results
\* in exactly one record, also for a failed read, and never in a crash: a
\* run on an open transport that has ended has ended without an exception,
\* with as many records appended as iterations completed.
C1_EveryIterationAppendsOnce ==
    (store_data /\ ser = "open" /\ AddrByte < 256
        /\ pc = "idle" /\ last.op = "stream")
    => (last.raised = "none" /\ Len(h5.index) = _curr_itteration)

\* C2: with duration > 0, an open transport and no stop signal, the loop
\* halts on its own after exactly duration/interval iterations.
C2_HaltsAfterDurationOverInterval ==
    (duration > 0 /\ ser = "open" /\ AddrByte < 256
        /\ pc = "idle" /\ last.op = "stream" /\ _running)
    => (last.raised = "none" /\ _curr_itteration = duration \div interval)

\* C3: in a run with the store flag set, the indices the recorder receives
\* are 0, 1, 2, ...: once a read of the run has returned (a value or None)
\* and the run has ended, the index column holds 0, 1, 2, ... from its first
\* row on, without gap or duplicate.
C3_RecordedIndicesCountFromZero ==
    (store_data /\ pc = "idle" /\ last.op = "stream" /\ pressure # Unset)
    => /\ Len(h5.index) > 0
       /\ \A i \in 1..Len(h5.index) : h5.index[i] = i - 1

\* C4: a failed read (read_pressure returned None) never ends stream with an
\* exception: the step taken after it leaves the loop running.
C4_FailedReadDoesNotRaise ==
    [][(pc = "stamp" /\ pressure = None /\ pc' = "idle")
        => last'.raised = "none"]_vars

\* C5: whatever bytes the transport read returned, the decode step ends in
\* a pressure value or None and raises nothing.
C5_DecodeNeverRaises ==
    Decoded1 =>
        /\ last.raised = "none"
        /\ (last.ret = None \/ Len(last.ret) = 3)

\* the decode step has turned an empty response into None
C5_Witness ==
    /\ Decoded1
    /\ resp = <<>>
    /\ last.raised = "none"
    /\ last.ret = None

\* C6: a pressure value is returned if and only if the response has at
\* least 10 bytes, byte 0 is 0x2A, byte 1 is the configured address and
\* byte 2 is the command code 0x02.
C6_AcceptedIffFourChecksPass ==
    (Decoded1 /\ last.raised = "none") =>
        ( (last.ret # None)
          <=> ( /\ Len(resp) >= 10
                /\ resp[1] = 42
                /\ resp[2] = AddrByte
                /\ resp[3] = 2 ) )

\* a full frame for address 2A with pressure bytes 43 48 00 00 was accepted
\* as the float with sign 0, exponent 134, fraction 0x480000 (200.0)
C6_Witness ==
    /\ Decoded1
    /\ AddrByte = 42
    /\ Len(resp) = 20
    /\ last.ret = <<0, 134, 4718592>>

\* C7 as stated: the four failures are reported with four distinct reasons:
\* the reason printed for a rejected response is printed for no response
\* whose first failing check is another one.
C7_FourDistinctReasons ==
    (Decoded1 /\ last.raised = "none" /\ last.ret = None) =>
        \A r2 \in DecodeInputs :
            (FirstFailing(r2) \notin {"none", FirstFailing(resp)})
            => Decode(r2, CmdReadPressure).out[1].text # stdout[1].text

\* C7 amended: the checks run in the order length, start marker, address,
\* command echo and the first failing one decides the line printed, with
\* three distinct lines: a short (or empty) response and a bad start marker
\* both print "Invalid or empty response", a wrong address prints
\* "Unexpected address" with byte 1, a wrong echo "Unexpected cmd echo" with
\* byte 2; an accepted response prints nothing.
C7_FirstFailingCheckThreeMessages ==
    (Decoded1 /\ last.raised = "none") =>
        stdout =
            CASE FirstFailing(resp) \in {"FrameTooShort", "BadStartMarker"}
                    -> <<Line("Invalid or empty response", -1)>>
              [] FirstFailing(resp) = "AddressMismatch"
                    -> <<Line("Unexpected address", resp[2])>>
              [] FirstFailing(resp) = "CommandMismatch"
                    -> <<Line("Unexpected cmd echo", resp[3])>>
              [] OTHER -> <<>>

\* a frame with a wrong address and a wrong echo is reported for its address
C7_Witness ==
    /\ Decoded1
    /\ Len(resp) = 20
    /\ resp[1] = 42
    /\ resp[2] # AddrByte
    /\ resp[3] # 2
    /\ stdout = <<Line("Unexpected address", resp[2])>>

\* C8: an exchange attempted on an absent or closed transport ends with
\* RuntimeError ("Serial port not open") with nothing written or read; the
\* error leaves read_pressure and stream, and the step changes neither the
\* sequence index nor the table.
ExchangeAttempt ==
    \/ pc = "read" /\ pc' # "read"
    \/ pc = "idle" /\ pc' = "idle" /\ last' # last
          /\ last'.op \in {"send_command", "read_pressure"}
C8_NotConnectedIsFatal ==
    [][(ser # "open" /\ ExchangeAttempt)
        => /\ last'.raised = "RuntimeError"
           /\ pc' = "idle"
           /\ wire' = <<>>
           /\ resp' = <<>>
           /\ _curr_itteration' = _curr_itteration
           /\ h5' = h5]_vars

\* stream on a closed port has ended with RuntimeError, nothing on the wire
C8_Witness ==
    /\ ser = "closed"
    /\ pc = "idle"
    /\ last = Called("stream", <<>>, "RuntimeError", <<>>)
    /\ wire = <<>>
    /\ _curr_itteration = 0

\* C9: the packet send_command writes is 0x21, the address byte, the command
\* code, the payload, then the CRC-16 of address+command+payload low byte
\* first; 5 + len(payload) bytes.
C9_PacketOnTheWire ==
    (last.op = "send_command" /\ ser = "open" /\ AddrByte < 256) =>
        LET cmd == last.args[1]
            payload == Tail(last.args)
            c == RefCrc16Modbus(<<AddrByte, cmd>> \o payload)
        IN  /\ Len(wire) >= 2
            /\ wire[2].op = "write"
            /\ wire[2].arg = <<33, AddrByte, cmd>> \o payload \o <<c % 256, c \div 256>>
            /\ Len(wire[2].arg) = 5 + Len(payload)

\* C11: with duration = 0 the loop never halts on its own: a run with
\* duration 0 on an open transport that has ended was ended by the stop
\* signal, which had cleared the running flag.
C11_UnboundedRunEndsOnlyOnStop ==
    (duration = 0 /\ ser = "open" /\ AddrByte < 256
        /\ pc = "idle" /\ last.op = "stream")
    => (~_running /\ last.raised = "none")

Rows(t) == [n \in 1..Len(t.index) |->
               [index |-> t.index[n], timestamp |-> t.timestamp[n],
                pressure |-> t.pressure[n]]]

\* C12: a call of write_to_h5 on a configured file grows the table by
\* exactly one row, at the end, holding the index, timestamp and pressure
\* it was given, and leaves every row stored before as it was, whether the
\* table is new or already holds rows.
C12_AppendOnly ==
    [][(h5file # "" /\ last'.op = "write_to_h5")
        => /\ h5'.created
           /\ Rows(h5') = Append(Rows(h5),
                                 [index |-> last'.args[1],
                                  timestamp |-> last'.args[2],
                                  pressure |-> last'.args[3]])
           /\ Len(h5'.timestamp) = Len(h5.timestamp) + 1
           /\ Len(h5'.pressure) = Len(h5.pressure) + 1]_vars

\* an append to a table that already held two rows, after an append to it
C12_Witness ==
    /\ last.op = "write_to_h5"
    /\ h5file # ""
    /\ Len(h5.index) = 3
    /\ h5.index[1] = 2
    /\ h5.index[3] = last.args[1]
    /\ h5.index[2] # h5.index[3]

\* C13: every start of the loop restarts the sequence index at 0 and takes
\* the moment of the start, not of construction, as the origin of elapsed
\* time.
C13_EveryStartResets ==
    [][(pc = "idle" /\ pc' = "test")
        => (_curr_itteration' = 0 /\ _start_time' = now')]_vars

\* C14: an iteration of the loop performs exactly one exchange, its
\* operations in the order reset input buffer, write, flush, settling
\* delay, one read of at most 20 bytes: once the read step of an iteration
\* on an open transport has ended, the transport has seen these five
\* operations, one write and one read.
C14_OneExchangePerIteration ==
    (ser = "open" /\ AddrByte < 256 /\ last.op = "stream"
        /\ (pc = "stamp" \/ (pc = "idle" /\ last.raised # "none")))
    => /\ [i \in 1..Len(wire) |-> wire[i].op]
            = <<"reset_input_buffer", "write", "flush", "sleep_ms", "read">>
       /\ wire[5].arg = <<ReadSize>>

\* C15: with the store flag false the table is left as it was from the
\* start of a run to its end, while the sequence index advances by one per
\* iteration: a run on an open transport that entered the loop and ended
\* without a stop signal has left the table alone and advanced the index.
C15_NoStoreIndexStillAdvances ==
    (~store_data /\ ser = "open" /\ AddrByte < 256
        /\ pc = "idle" /\ last.op = "stream" /\ _running)
    => (h5 = NoTable /\ h5_writes = 0 /\ _curr_itteration > 0)

\* the responses of the decode step's inputs that have at least 10 bytes
\* and agree with r on bytes 0 to 2 and 4 to 7: any unit byte, any bytes
\* from index 8 on, any length from 10 to 20
Variants(r) ==
    { Slice(Slice(r, 0, 3) \o <<u>> \o Slice(r, 4, 8) \o t, 0, n) :
        u \in {0, 4}, t \in DecodeTails, n \in MinRespLen..ReadSize }

\* C16: the outcome of decoding depends only on the length and bytes 0 to 2
\* (accept or reject) and bytes 4 to 7 (the pressure): a response of at
\* least 10 bytes and every response of at least 10 bytes that agrees with
\* it on bytes 0 to 2 and 4 to 7 are decoded to the same outcome, whatever
\* byte 3 and the bytes from index 8 on are.
C16_OutcomeIgnoresUnitAndTail ==
    (Decoded1 /\ Len(resp) >= MinRespLen) =>
        \A r2 \in Variants(resp) :
            LET d == Decode(r2, CmdReadPressure)
            IN  /\ r2 \in DecodeInputs
                /\ d.raised = last.raised
                /\ d.ret = last.ret
                /\ d.out = stdout

\* an accepted response of exactly 10 bytes with unit byte 0: responses
\* with another unit byte, other trailing bytes and up to 20 bytes agree
\* with it
C16_Witness ==
    /\ Decoded1
    /\ Len(resp) = MinRespLen
    /\ At(resp, 3) = 0
    /\ last.ret = <<0, 134, 4718592>>
    /\ \E r2 \in Variants(resp) :
         Len(r2) = ReadSize /\ At(r2, 3) = 4 /\ At(r2, 9) # At(resp, 9)

\* C17: while calc_crc runs, the accumulator is in 0..0xFFFF after the
\* initialisation, after every XOR with a byte and after every shift step,
\* and the conversion to two bytes at the end does not overflow.
C17_AccumulatorStays16Bit ==
    /\ crc_pc \in {"byte", "bit", "done"} => crc \in 0..65535
    /\ crc_pc # "OverflowError"
    /\ crc_pc = "done" => Len(crc_out) = 2

\* the eight shift steps of the third byte are done and the top bit of the
\* accumulator is set
C17_Witness ==
    /\ crc_pc = "bit"
    /\ crc_bit = 8
    /\ crc_i = 2
    /\ crc >= 32768

\* C18: after any sequence of completed calls of write_to_h5 the three
\* columns have the same length, the number of appends completed since the
\* table was created, and row n of the three columns is the index,
\* timestamp and pressure of one sample.
C18_ColumnsAligned ==
    /\ Len(h5.index) = h5_writes
    /\ Len(h5.timestamp) = h5_writes
    /\ Len(h5.pressure) = h5_writes
    /\ \A n \in 1..h5_writes : Rows(h5)[n] \in Samples

\* three appends are completed, the last two of them of different samples
C18_Witness ==
    /\ h5_writes = 3
    /\ last.op = "write_to_h5"
    /\ h5.pressure[3] = last.args[3]
    /\ h5.timestamp[2] # h5.timestamp[3]
    /\ h5.index[1] = h5.index[3]

====
